---- MODULE Spec2Model ----
(***************************************************************************)
(* Alphascape: the two program variants of the repository.                 *)
(*   "triangle" is src/main.cpp          (glDrawArrays, one vertex buffer) *)
(*   "quads"    is src/unnamed/part_000  (glDrawElements, vertex + index   *)
(*              buffer, a time-animated uniform "ourColor")                *)
(* main() is modelled statement by statement (pc is the statement about to *)
(* run); the graphics context (gl) and the windowing layer (glfw) are      *)
(* modelled by what the calls main() issues do to them.                    *)
(***************************************************************************)
EXTENDS Integers, Sequences, FiniteSets, TLC

VARIABLES
    variant,        \* which of the two programs runs
    pc,             \* the statement of main() about to execute
    WIDTH, HEIGHT,  \* the globals WIDTH, HEIGHT
    lastFrameTime,  \* the global lastFrameTime (quads variant)
    main,           \* the locals of main()
    glfw,           \* the windowing layer: window, close flag, callbacks, clock,
                    \* and the events dispatched by a glfwPollEvents that has
                    \* just returned (forgotten at the statement after it)
    gl,             \* the graphics context: objects and bindings
    out,            \* what was written to cout, one entry per message
    setupLog,       \* the calls issued before the loop, in order
    frameLog,       \* the calls issued in the loop iteration in progress
    cleanupLog,     \* the calls issued after the loop
    glew,           \* the extension loader: "unset", "ok" or "error"
    frames,         \* the number of completed loop iterations
    queries         \* the number of glGetUniformLocation calls issued

vars == <<variant, pc, WIDTH, HEIGHT, lastFrameTime, main, glfw, glew, gl, out,
          setupLog, frameLog, cleanupLog, frames, queries>>

----------------------------------------------------------------------------
(* Bounds of the model *)

MaxFrames == 2      \* loop iterations explored
MaxEvents == 1      \* events delivered by one glfwPollEvents
MaxClock  == 3      \* the clock, in units of pi/2 seconds
MaxScale  == 2      \* framebuffer pixels per window unit (high-DPI)

(* Program constants *)

TriangleWidth  == 640
TriangleHeight == 480
QuadsWidth     == 512
QuadsHeight    == 512
TriangleVertexCount == 3
QuadsVertexCount    == 8
QuadsIndexCount     == 12
SizeofGLuint        == 4
SizeofGLfloat       == 4
FloatsPerVertex     == 3

Variants == {"triangle", "quads"}

InitialWidth(v)  == IF v = "triangle" THEN TriangleWidth ELSE QuadsWidth
InitialHeight(v) == IF v = "triangle" THEN TriangleHeight ELSE QuadsHeight

\* sizeof(vertices), sizeof(indices): the byte sizes of the two arrays
SizeofVertices(v) ==
    (IF v = "triangle" THEN TriangleVertexCount ELSE QuadsVertexCount)
        * FloatsPerVertex * SizeofGLfloat
SizeofIndices == QuadsIndexCount * SizeofGLuint

\* The window sizes a resize notification may carry
ResizeDims == {<<320, 240>>, <<800, 600>>}

Keys    == {"ESCAPE", "OTHER"}
KeyActs == {"PRESS", "RELEASE", "REPEAT"}

\* What glfwPollEvents may find pending: a key, a resize (with the scale of
\* the framebuffer the surface then has), or the user closing the window.
Events ==
    [type : {"key"}, key : Keys, action : KeyActs]
    \cup [type : {"resize"}, dim : ResizeDims, scale : 1..MaxScale]
    \cup [type : {"close"}]

RECURSIVE SeqsUpTo(_, _)
SeqsUpTo(S, n) ==
    IF n = 0 THEN {<<>>}
    ELSE LET shorter == SeqsUpTo(S, n - 1)
         IN  shorter \cup {Append(s, e) : s \in shorter, e \in S}

Call(op, arg) == [op |-> op, arg |-> arg]

\* The smallest unused object name (what glGen* / glCreate* hand out)
FreshName(used) ==
    CHOOSE n \in 1..(Cardinality(used) + 1) :
        n \notin used /\ \A m \in 1..(n - 1) : m \in used

----------------------------------------------------------------------------
(* The graphics context: what each call does to it.  g is the context      *)
(* before the call, the value is the context after it.                     *)

\* Shader and program objects share one name space
ObjectNames(g) == g.shaders \cup g.programs

glCreateShader(g) ==
    [g EXCEPT !.shaders = @ \cup {FreshName(ObjectNames(g))}]

\* glShaderSource + glCompileShader; ok is whether the source compiles
glCompileShader(g, s, ok) ==
    [g EXCEPT !.compiled = IF ok THEN @ \cup {s} ELSE @ \ {s}]

glCreateProgram(g) ==
    [g EXCEPT !.programs = @ \cup {FreshName(ObjectNames(g))}]

glAttachShader(g, p, s) ==
    IF p \in g.programs /\ s \in g.shaders
    THEN [g EXCEPT !.attached = @ \cup {<<p, s>>}]
    ELSE g

AttachedTo(g, p) == {s \in g.shaders : <<p, s>> \in g.attached}

\* A link succeeds only if every attached stage compiled; ok is whether the
\* linker accepts the (compiled) stages
glLinkProgram(g, p, ok) ==
    LET good == ok /\ AttachedTo(g, p) # {}
                   /\ AttachedTo(g, p) \subseteq g.compiled
    IN  [g EXCEPT !.linked = IF good THEN @ \cup {p} ELSE @ \ {p}]

\* A shader attached to a program is only flagged for deletion; it goes
\* away when it is detached or the program is deleted.
glDeleteShader(g, s) ==
    IF s \notin g.shaders THEN g
    ELSE IF \E p \in g.programs : <<p, s>> \in g.attached
         THEN [g EXCEPT !.flagged = @ \cup {s}]
         ELSE [g EXCEPT !.shaders = @ \ {s}, !.compiled = @ \ {s}]

\* GL_INVALID_OPERATION (no change) for a program that is not linked
glUseProgram(g, p) ==
    IF p = 0 \/ p \in g.linked
    THEN [g EXCEPT !.currentProgram = p]
    ELSE g

\* the location of the active uniform "ourColor", -1 when there is none
glGetUniformLocation(g, p) ==
    IF p \in g.linked /\ g.hasOurColor THEN 0 ELSE -1

\* GL_INVALID_OPERATION without a current program; location -1 is ignored
glUniform4f(g, location, value) ==
    IF g.currentProgram # 0 /\ location = 0
    THEN [g EXCEPT !.uniform = value]
    ELSE g

glGenVertexArrays(g) ==
    LET n == FreshName(g.vaos)
    IN  [g EXCEPT !.vaos = @ \cup {n},
                  !.vaoElementBuffer = [v \in g.vaos \cup {n} |->
                        IF v = n THEN 0 ELSE g.vaoElementBuffer[v]],
                  !.vaoAttrib = [v \in g.vaos \cup {n} |->
                        IF v = n
                        THEN [enabled |-> FALSE, buffer |-> 0, size |-> 0,
                              stride |-> 0, offset |-> 0]
                        ELSE g.vaoAttrib[v]]]

glGenBuffers(g) ==
    LET n == FreshName(g.buffers)
    IN  [g EXCEPT !.buffers = @ \cup {n},
                  !.data = [b \in g.buffers \cup {n} |->
                        IF b = n THEN 0 ELSE g.data[b]]]

glBindVertexArray(g, v) ==
    IF v = 0 \/ v \in g.vaos THEN [g EXCEPT !.boundVAO = v] ELSE g

glBindArrayBuffer(g, b) ==
    IF b = 0 \/ b \in g.buffers THEN [g EXCEPT !.boundArrayBuffer = b] ELSE g

\* The element array binding is state of the bound vertex array
glBindElementBuffer(g, b) ==
    IF (b = 0 \/ b \in g.buffers) /\ g.boundVAO # 0
    THEN [g EXCEPT !.vaoElementBuffer[g.boundVAO] = b]
    ELSE g

glArrayBufferData(g, bytes) ==
    IF g.boundArrayBuffer # 0
    THEN [g EXCEPT !.data[g.boundArrayBuffer] = bytes]
    ELSE g

BoundElementBuffer(g) ==
    IF g.boundVAO # 0 THEN g.vaoElementBuffer[g.boundVAO] ELSE 0

glElementBufferData(g, bytes) ==
    IF BoundElementBuffer(g) # 0
    THEN [g EXCEPT !.data[BoundElementBuffer(g)] = bytes]
    ELSE g

\* glVertexAttribPointer(0, size, GL_FLOAT, GL_FALSE, stride, offset): the
\* attribute captures the buffer bound to GL_ARRAY_BUFFER at the call
glVertexAttribPointer(g, size, stride, offset) ==
    IF g.boundVAO # 0
    THEN [g EXCEPT !.vaoAttrib[g.boundVAO] =
              [@ EXCEPT !.buffer = g.boundArrayBuffer, !.size = size,
                        !.stride = stride, !.offset = offset]]
    ELSE g

glEnableVertexAttribArray(g) ==
    IF g.boundVAO # 0
    THEN [g EXCEPT !.vaoAttrib[g.boundVAO].enabled = TRUE]
    ELSE g

glDeleteVertexArrays(g, v) ==
    IF v \notin g.vaos THEN g
    ELSE [g EXCEPT !.vaos = @ \ {v},
                   !.vaoElementBuffer = [w \in g.vaos \ {v} |-> @[w]],
                   !.vaoAttrib = [w \in g.vaos \ {v} |-> @[w]],
                   !.boundVAO = IF @ = v THEN 0 ELSE @]

\* Deleting a buffer resets the bindings of the current context that name it
glDeleteBuffers(g, b) ==
    IF b \notin g.buffers THEN g
    ELSE [g EXCEPT !.buffers = @ \ {b},
                   !.data = [c \in g.buffers \ {b} |-> @[c]],
                   !.boundArrayBuffer = IF @ = b THEN 0 ELSE @,
                   !.vaoElementBuffer = [w \in DOMAIN @ |->
                        IF w = g.boundVAO /\ @[w] = b THEN 0 ELSE @[w]]]

glViewport(g, w, h) == [g EXCEPT !.viewport = <<0, 0, w, h>>]

\* Every object name of the context that has not been deleted
LiveHandles(g) ==
    {<<"shader", s>> : s \in g.shaders}
    \cup {<<"program", p>> : p \in g.programs}
    \cup {<<"buffer", b>> : b \in g.buffers}
    \cup {<<"vertex array", v>> : v \in g.vaos}

----------------------------------------------------------------------------
(* Initial state: main() has not started *)

Init ==
    /\ variant \in Variants
    /\ pc = "glfwInit"
    /\ WIDTH = InitialWidth(variant)
    /\ HEIGHT = InitialHeight(variant)
    /\ lastFrameTime = 0
    /\ main = [vertexShader |-> 0, fragmentShader |-> 0, shaderProgram |-> 0,
               success |-> 0, infoLog |-> 0, VBO |-> 0, VAO |-> 0, EBO |-> 0,
               timeValue |-> 0, timeSinceLastFrame |-> 0, greenValue |-> 0,
               vertexColorLocation |-> -1]
    /\ glfw = [window |-> "unset", current |-> FALSE, keyCallback |-> FALSE,
               sizeCallback |-> FALSE, shouldClose |-> FALSE,
               framebufferSize |-> <<0, 0>>, clock |-> 0, terminated |-> FALSE,
               delivered |-> <<>>]
    /\ glew = "unset"
    /\ gl = [shaders |-> {}, flagged |-> {}, compiled |-> {}, programs |-> {},
             attached |-> {}, linked |-> {}, currentProgram |-> 0,
             hasOurColor |-> (variant = "quads"), uniform |-> -1,
             buffers |-> {}, data |-> <<>>, vaos |-> {},
             vaoElementBuffer |-> <<>>, vaoAttrib |-> <<>>,
             boundVAO |-> 0, boundArrayBuffer |-> 0,
             viewport |-> <<0, 0, 0, 0>>]
    /\ out = <<>>
    /\ setupLog = <<>>
    /\ frameLog = <<>>
    /\ cleanupLog = <<>>
    /\ frames = 0
    /\ queries = 0

----------------------------------------------------------------------------
(* main(): start-up *)

Setup(calls) == setupLog' = setupLog \o calls

\* glfwInit and the four glfwWindowHint calls
GlfwInit ==
    /\ pc = "glfwInit"
    /\ pc' = "glfwCreateWindow"
    /\ Setup(<<Call("glfwInit", 0)>>)
    /\ UNCHANGED <<variant, WIDTH, HEIGHT, lastFrameTime, main, glfw, glew, gl,
                   out, frameLog, cleanupLog, frames, queries>>

\* glfwCreateWindow(WIDTH, HEIGHT, ...): the result is not checked; a null
\* window is kept and used by the statements that follow
GlfwCreateWindow ==
    /\ pc = "glfwCreateWindow"
    /\ pc' = "glfwMakeContextCurrent"
    /\ \E ok \in BOOLEAN, scale \in 1..MaxScale :
         glfw' = [glfw EXCEPT
                    !.window = IF ok THEN "valid" ELSE "null",
                    !.framebufferSize =
                        IF ok THEN <<scale * WIDTH, scale * HEIGHT>> ELSE @]
    /\ Setup(<<Call("glfwCreateWindow", 0)>>)
    /\ UNCHANGED <<variant, WIDTH, HEIGHT, lastFrameTime, main, glew, gl,
                   out, frameLog, cleanupLog, frames, queries>>

\* main() without its glfwMakeContextCurrent(window) statement
GlfwMakeContextCurrent_Omitted ==
    /\ pc = "glfwMakeContextCurrent"
    /\ pc' = "glfwSetKeyCallback"
    /\ UNCHANGED <<variant, WIDTH, HEIGHT, lastFrameTime, main, glfw, glew, gl,
                   out, setupLog, frameLog, cleanupLog, frames, queries>>

GlfwMakeContextCurrent ==
    /\ pc = "glfwMakeContextCurrent"
    /\ pc' = "glfwSetKeyCallback"
    /\ glfw' = [glfw EXCEPT !.current = (glfw.window = "valid")]
    /\ Setup(<<Call("glfwMakeContextCurrent", 0)>>)
    /\ UNCHANGED <<variant, WIDTH, HEIGHT, lastFrameTime, main, glew, gl,
                   out, frameLog, cleanupLog, frames, queries>>

\* glfwSetKeyCallback(window, key_callback) stores into *window: with a null
\* window the statement cannot complete (see Crash)
GlfwSetKeyCallback ==
    /\ pc = "glfwSetKeyCallback"
    /\ glfw.window = "valid"
    /\ pc' = "glfwSetWindowSizeCallback"
    /\ glfw' = [glfw EXCEPT !.keyCallback = TRUE]
    /\ Setup(<<Call("glfwSetKeyCallback", 0)>>)
    /\ UNCHANGED <<variant, WIDTH, HEIGHT, lastFrameTime, main, glew, gl,
                   out, frameLog, cleanupLog, frames, queries>>

GlfwSetWindowSizeCallback ==
    /\ pc = "glfwSetWindowSizeCallback"
    /\ pc' = "glewInit"
    /\ glfw' = [glfw EXCEPT !.sizeCallback = TRUE]
    /\ Setup(<<Call("glfwSetWindowSizeCallback", 0)>>)
    /\ UNCHANGED <<variant, WIDTH, HEIGHT, lastFrameTime, main, glew, gl,
                   out, frameLog, cleanupLog, frames, queries>>

\* glewExperimental = GL_TRUE; glewInit(): the result is discarded
GlewInit ==
    /\ pc = "glewInit"
    /\ pc' = "glViewport"
    /\ \E ok \in BOOLEAN :
         glew' = IF ok THEN "ok" ELSE "error"
    /\ Setup(<<Call("glewInit", 0)>>)
    /\ UNCHANGED <<variant, WIDTH, HEIGHT, lastFrameTime, main, glfw, gl,
                   out, frameLog, cleanupLog, frames, queries>>

\* glViewport(0, 0, WIDTH, HEIGHT)
SetInitialViewport ==
    /\ pc = "glViewport"
    /\ pc' = "vs_compile"
    /\ gl' = glViewport(gl, WIDTH, HEIGHT)
    /\ Setup(<<Call("glViewport", 0)>>)
    /\ UNCHANGED <<variant, WIDTH, HEIGHT, lastFrameTime, main, glfw, glew,
                   out, frameLog, cleanupLog, frames, queries>>

----------------------------------------------------------------------------
(* main(): compile and link the shader program *)

\* glCreateShader(GL_VERTEX_SHADER); glShaderSource; glCompileShader;
\* glGetShaderiv(GL_COMPILE_STATUS, &success)
CompileVertexShader ==
    /\ pc = "vs_compile"
    /\ pc' = "vs_check"
    /\ \E ok \in BOOLEAN :
         LET s == FreshName(ObjectNames(gl))
         IN  /\ gl' = glCompileShader(glCreateShader(gl), s, ok)
             /\ main' = [main EXCEPT !.vertexShader = s,
                                     !.success = IF ok THEN 1 ELSE 0]
             /\ Setup(<<Call("glCreateShader", s), Call("glShaderSource", s),
                        Call("glCompileShader", s)>>)
    /\ UNCHANGED <<variant, WIDTH, HEIGHT, lastFrameTime, glfw, glew,
                   out, frameLog, cleanupLog, frames, queries>>

\* ReportFailure with the glGet*InfoLog call left out: the buffer is printed
\* as it is
ReportFailure_StaleLog(shader, label) ==
    IF main.success = 0
    THEN /\ out' = Append(out, [label |-> label, log |-> main.infoLog])
         /\ UNCHANGED main
    ELSE UNCHANGED <<main, out>>

\* if (!success) { glGetShaderInfoLog(object, ..., infoLog); cout << ... }
\* The log of an object is identified by the object's name; what is printed
\* is the content of the one infoLog buffer all three reports share.
ReportFailure(shader, label) ==
    IF main.success = 0
    THEN /\ main' = [main EXCEPT !.infoLog = shader]
         /\ out' = Append(out, [label |-> label, log |-> main'.infoLog])
    ELSE UNCHANGED <<main, out>>

CheckVertexShader ==
    /\ pc = "vs_check"
    /\ pc' = "fs_compile"
    /\ ReportFailure(main.vertexShader, "VERTEX")
    /\ UNCHANGED <<variant, WIDTH, HEIGHT, lastFrameTime, glfw, glew, gl,
                   setupLog, frameLog, cleanupLog, frames, queries>>

CompileFragmentShader ==
    /\ pc = "fs_compile"
    /\ pc' = "fs_check"
    /\ \E ok \in BOOLEAN :
         LET s == FreshName(ObjectNames(gl))
         IN  /\ gl' = glCompileShader(glCreateShader(gl), s, ok)
             /\ main' = [main EXCEPT !.fragmentShader = s,
                                     !.success = IF ok THEN 1 ELSE 0]
             /\ Setup(<<Call("glCreateShader", s), Call("glShaderSource", s),
                        Call("glCompileShader", s)>>)
    /\ UNCHANGED <<variant, WIDTH, HEIGHT, lastFrameTime, glfw, glew,
                   out, frameLog, cleanupLog, frames, queries>>

CheckFragmentShader ==
    /\ pc = "fs_check"
    /\ pc' = "glCreateProgram"
    /\ ReportFailure(main.fragmentShader, "FRAGMENT")
    /\ UNCHANGED <<variant, WIDTH, HEIGHT, lastFrameTime, glfw, glew, gl,
                   setupLog, frameLog, cleanupLog, frames, queries>>

\* The program is created, both stages attached and the link requested
\* whatever the two compile statuses were
CreateProgram ==
    /\ pc = "glCreateProgram"
    /\ pc' = "attach_vs"
    /\ LET p == FreshName(ObjectNames(gl))
       IN  /\ gl' = glCreateProgram(gl)
           /\ main' = [main EXCEPT !.shaderProgram = p]
           /\ Setup(<<Call("glCreateProgram", p)>>)
    /\ UNCHANGED <<variant, WIDTH, HEIGHT, lastFrameTime, glfw, glew,
                   out, frameLog, cleanupLog, frames, queries>>

AttachVertexShader ==
    /\ pc = "attach_vs"
    /\ pc' = "attach_fs"
    /\ gl' = glAttachShader(gl, main.shaderProgram, main.vertexShader)
    /\ Setup(<<Call("glAttachShader", main.vertexShader)>>)
    /\ UNCHANGED <<variant, WIDTH, HEIGHT, lastFrameTime, main, glfw, glew,
                   out, frameLog, cleanupLog, frames, queries>>

AttachFragmentShader ==
    /\ pc = "attach_fs"
    /\ pc' = "glLinkProgram"
    /\ gl' = glAttachShader(gl, main.shaderProgram, main.fragmentShader)
    /\ Setup(<<Call("glAttachShader", main.fragmentShader)>>)
    /\ UNCHANGED <<variant, WIDTH, HEIGHT, lastFrameTime, main, glfw, glew,
                   out, frameLog, cleanupLog, frames, queries>>

\* glLinkProgram; glGetProgramiv(GL_LINK_STATUS, &success)
LinkProgram ==
    /\ pc = "glLinkProgram"
    /\ pc' = "link_check"
    /\ \E ok \in BOOLEAN :
         LET g == glLinkProgram(gl, main.shaderProgram, ok)
         IN  /\ gl' = g
             /\ main' = [main EXCEPT !.success =
                            IF main.shaderProgram \in g.linked THEN 1 ELSE 0]
    /\ Setup(<<Call("glLinkProgram", main.shaderProgram)>>)
    /\ UNCHANGED <<variant, WIDTH, HEIGHT, lastFrameTime, glfw, glew,
                   out, frameLog, cleanupLog, frames, queries>>

\* if (!success) { glGetProgramInfoLog(...); cout << ... }
CheckLink ==
    /\ pc = "link_check"
    /\ pc' = "delete_vs"
    /\ ReportFailure(main.shaderProgram, "PROGRAM")
    /\ UNCHANGED <<variant, WIDTH, HEIGHT, lastFrameTime, glfw, glew, gl,
                   setupLog, frameLog, cleanupLog, frames, queries>>

DeleteVertexShader ==
    /\ pc = "delete_vs"
    /\ pc' = "delete_fs"
    /\ gl' = glDeleteShader(gl, main.vertexShader)
    /\ Setup(<<Call("glDeleteShader", main.vertexShader)>>)
    /\ UNCHANGED <<variant, WIDTH, HEIGHT, lastFrameTime, main, glfw, glew,
                   out, frameLog, cleanupLog, frames, queries>>

DeleteFragmentShader ==
    /\ pc = "delete_fs"
    /\ pc' = "gen_vao"
    /\ gl' = glDeleteShader(gl, main.fragmentShader)
    /\ Setup(<<Call("glDeleteShader", main.fragmentShader)>>)
    /\ UNCHANGED <<variant, WIDTH, HEIGHT, lastFrameTime, main, glfw, glew,
                   out, frameLog, cleanupLog, frames, queries>>

----------------------------------------------------------------------------
(* main(): vertex array, buffers, attribute pointer *)

IsQuads == variant = "quads"

GenVertexArrays ==
    /\ pc = "gen_vao"
    /\ pc' = "gen_vbo"
    /\ LET n == FreshName(gl.vaos)
       IN  /\ gl' = glGenVertexArrays(gl)
           /\ main' = [main EXCEPT !.VAO = n]
           /\ Setup(<<Call("glGenVertexArrays", n)>>)
    /\ UNCHANGED <<variant, WIDTH, HEIGHT, lastFrameTime, glfw, glew,
                   out, frameLog, cleanupLog, frames, queries>>

GenVertexBuffer ==
    /\ pc = "gen_vbo"
    /\ pc' = IF IsQuads THEN "gen_ebo" ELSE "bind_vao"
    /\ LET n == FreshName(gl.buffers)
       IN  /\ gl' = glGenBuffers(gl)
           /\ main' = [main EXCEPT !.VBO = n]
           /\ Setup(<<Call("glGenBuffers", n)>>)
    /\ UNCHANGED <<variant, WIDTH, HEIGHT, lastFrameTime, glfw, glew,
                   out, frameLog, cleanupLog, frames, queries>>

GenElementBuffer ==
    /\ pc = "gen_ebo"
    /\ pc' = "bind_vao"
    /\ LET n == FreshName(gl.buffers)
       IN  /\ gl' = glGenBuffers(gl)
           /\ main' = [main EXCEPT !.EBO = n]
           /\ Setup(<<Call("glGenBuffers", n)>>)
    /\ UNCHANGED <<variant, WIDTH, HEIGHT, lastFrameTime, glfw, glew,
                   out, frameLog, cleanupLog, frames, queries>>

BindVertexArrayForSetup ==
    /\ pc = "bind_vao"
    /\ pc' = "bind_vbo"
    /\ gl' = glBindVertexArray(gl, main.VAO)
    /\ Setup(<<Call("glBindVertexArray", main.VAO)>>)
    /\ UNCHANGED <<variant, WIDTH, HEIGHT, lastFrameTime, main, glfw, glew,
                   out, frameLog, cleanupLog, frames, queries>>

BindVertexBuffer ==
    /\ pc = "bind_vbo"
    /\ pc' = "data_vbo"
    /\ gl' = glBindArrayBuffer(gl, main.VBO)
    /\ Setup(<<Call("glBindBuffer(ARRAY)", main.VBO)>>)
    /\ UNCHANGED <<variant, WIDTH, HEIGHT, lastFrameTime, main, glfw, glew,
                   out, frameLog, cleanupLog, frames, queries>>

UploadVertices ==
    /\ pc = "data_vbo"
    /\ pc' = IF IsQuads THEN "bind_ebo" ELSE "attrib_pointer"
    /\ gl' = glArrayBufferData(gl, SizeofVertices(variant))
    /\ Setup(<<Call("glBufferData(ARRAY)", SizeofVertices(variant))>>)
    /\ UNCHANGED <<variant, WIDTH, HEIGHT, lastFrameTime, main, glfw, glew,
                   out, frameLog, cleanupLog, frames, queries>>

BindElementBuffer ==
    /\ pc = "bind_ebo"
    /\ pc' = "data_ebo"
    /\ gl' = glBindElementBuffer(gl, main.EBO)
    /\ Setup(<<Call("glBindBuffer(ELEMENT)", main.EBO)>>)
    /\ UNCHANGED <<variant, WIDTH, HEIGHT, lastFrameTime, main, glfw, glew,
                   out, frameLog, cleanupLog, frames, queries>>

UploadIndices ==
    /\ pc = "data_ebo"
    /\ pc' = "attrib_pointer"
    /\ gl' = glElementBufferData(gl, SizeofIndices)
    /\ Setup(<<Call("glBufferData(ELEMENT)", SizeofIndices)>>)
    /\ UNCHANGED <<variant, WIDTH, HEIGHT, lastFrameTime, main, glfw, glew,
                   out, frameLog, cleanupLog, frames, queries>>

\* glVertexAttribPointer(0, 3, GL_FLOAT, GL_FALSE, 3 * sizeof(GLfloat), 0)
VertexAttribPointer ==
    /\ pc = "attrib_pointer"
    /\ pc' = "enable_attrib"
    /\ gl' = glVertexAttribPointer(gl, FloatsPerVertex,
                                   FloatsPerVertex * SizeofGLfloat, 0)
    /\ Setup(<<Call("glVertexAttribPointer", 0)>>)
    /\ UNCHANGED <<variant, WIDTH, HEIGHT, lastFrameTime, main, glfw, glew,
                   out, frameLog, cleanupLog, frames, queries>>

EnableVertexAttribArray ==
    /\ pc = "enable_attrib"
    /\ pc' = "unbind_vbo"
    /\ gl' = glEnableVertexAttribArray(gl)
    /\ Setup(<<Call("glEnableVertexAttribArray", 0)>>)
    /\ UNCHANGED <<variant, WIDTH, HEIGHT, lastFrameTime, main, glfw, glew,
                   out, frameLog, cleanupLog, frames, queries>>

\* glBindBuffer(GL_ARRAY_BUFFER, 0)
UnbindVertexBuffer ==
    /\ pc = "unbind_vbo"
    /\ pc' = IF IsQuads THEN "rebind_ebo" ELSE "unbind_vao"
    /\ gl' = glBindArrayBuffer(gl, 0)
    /\ Setup(<<Call("glBindBuffer(ARRAY)", 0)>>)
    /\ UNCHANGED <<variant, WIDTH, HEIGHT, lastFrameTime, main, glfw, glew,
                   out, frameLog, cleanupLog, frames, queries>>

\* glBindBuffer(GL_ELEMENT_ARRAY_BUFFER, EBO), a second time
RebindElementBuffer ==
    /\ pc = "rebind_ebo"
    /\ pc' = "unbind_vao"
    /\ gl' = glBindElementBuffer(gl, main.EBO)
    /\ Setup(<<Call("glBindBuffer(ELEMENT)", main.EBO)>>)
    /\ UNCHANGED <<variant, WIDTH, HEIGHT, lastFrameTime, main, glfw, glew,
                   out, frameLog, cleanupLog, frames, queries>>

\* glBindVertexArray(0)
UnbindVertexArrayAfterSetup ==
    /\ pc = "unbind_vao"
    /\ pc' = "loop_check"
    /\ gl' = glBindVertexArray(gl, 0)
    /\ Setup(<<Call("glBindVertexArray", 0)>>)
    /\ UNCHANGED <<variant, WIDTH, HEIGHT, lastFrameTime, main, glfw, glew,
                   out, frameLog, cleanupLog, frames, queries>>

----------------------------------------------------------------------------
(* The callbacks, as functions of the state they read and write:           *)
(* st = [shouldClose, WIDTH, HEIGHT, framebufferSize, viewport]            *)

\* key_callback without the test of action
key_callback_AnyAction(st, key, action) ==
    IF key = "ESCAPE"
    THEN [st EXCEPT !.shouldClose = TRUE]
    ELSE st

\* if (key == GLFW_KEY_ESCAPE && action == GLFW_PRESS)
\*     glfwSetWindowShouldClose(window, GL_TRUE);
key_callback(st, key, action) ==
    IF key = "ESCAPE" /\ action = "PRESS"
    THEN [st EXCEPT !.shouldClose = TRUE]
    ELSE st

\* window_size_callback setting the viewport from the globals before it
\* updates them
window_size_callback_StaleViewport(st, width, height) ==
    [st EXCEPT !.WIDTH = width,
               !.HEIGHT = height,
               !.viewport = <<0, 0, st.WIDTH, st.HEIGHT>>]

\* window_size_callback without the glfwGetFramebufferSize call
window_size_callback_RawValues(st, width, height) ==
    [st EXCEPT !.WIDTH = width,
               !.HEIGHT = height,
               !.viewport = <<0, 0, width, height>>]

\* WIDTH = width; HEIGHT = height;
\* glfwGetFramebufferSize(window, &width, &height);
\* glViewport(0, 0, width, height);
window_size_callback(st, width, height) ==
    [st EXCEPT !.WIDTH = width,
               !.HEIGHT = height,
               !.viewport = <<0, 0, st.framebufferSize[1],
                                    st.framebufferSize[2]>>]

\* One pending event: the surface updates its own state, then invokes the
\* registered callback
Dispatch(st, e) ==
    CASE e.type = "key" ->
            IF glfw.keyCallback THEN key_callback(st, e.key, e.action) ELSE st
      [] e.type = "resize" ->
            LET resized == [st EXCEPT !.framebufferSize =
                               <<e.scale * e.dim[1], e.scale * e.dim[2]>>]
            IN  IF glfw.sizeCallback
                THEN window_size_callback(resized, e.dim[1], e.dim[2])
                ELSE resized
      [] e.type = "close" -> [st EXCEPT !.shouldClose = TRUE]

RECURSIVE Deliver(_, _)
Deliver(st, evs) ==
    IF evs = <<>> THEN st
    ELSE Deliver(Dispatch(st, Head(evs)), Tail(evs))

\* sin at multiples of pi/2, in thousandths
SinMilli(t) ==
    LET table == <<0, 1000, 0, -1000>>
    IN  table[(t % 4) + 1]

\* (float)(sin(timeValue) / 2.0f) + 0.5f, in thousandths
GreenValue(t) == (SinMilli(t) \div 2) + 500

\* The count argument of the draw call:
\* glDrawArrays(GL_TRIANGLES, 0, 3) / glDrawElements(GL_TRIANGLES, sizeof(indices), ...)
DrawCount(v) == IF v = "triangle" THEN TriangleVertexCount ELSE SizeofIndices

\* The indices the bound vertex array's element buffer holds
IndicesAvailable(g) ==
    IF BoundElementBuffer(g) \in g.buffers
    THEN g.data[BoundElementBuffer(g)] \div SizeofGLuint
    ELSE 0

----------------------------------------------------------------------------
(* main(): the loop *)

Frame(calls) == frameLog' = frameLog \o calls

\* while (!glfwWindowShouldClose(window))
LoopCheck ==
    /\ pc = "loop_check"
    /\ IF glfw.shouldClose
       THEN /\ pc' = "delete_vao"
            /\ UNCHANGED frameLog
       ELSE /\ frames < MaxFrames
            /\ pc' = "poll"
            /\ frameLog' = <<>>
    /\ UNCHANGED <<variant, WIDTH, HEIGHT, lastFrameTime, main, glfw, glew, gl,
                   out, setupLog, cleanupLog, frames, queries>>

\* glfwPollEvents(): every pending event is dispatched before it returns
PollEvents ==
    /\ pc = "poll"
    /\ pc' = IF IsQuads THEN "get_time" ELSE "clear"
    /\ \E evs \in SeqsUpTo(Events, MaxEvents) :
         LET st == Deliver([shouldClose |-> glfw.shouldClose,
                            WIDTH |-> WIDTH, HEIGHT |-> HEIGHT,
                            framebufferSize |-> glfw.framebufferSize,
                            viewport |-> gl.viewport], evs)
         IN  /\ glfw' = [glfw EXCEPT !.shouldClose = st.shouldClose,
                                     !.framebufferSize = st.framebufferSize,
                                     !.delivered = evs]
             /\ WIDTH' = st.WIDTH
             /\ HEIGHT' = st.HEIGHT
             /\ gl' = [gl EXCEPT !.viewport = st.viewport]
    /\ Frame(<<Call("glfwPollEvents", 0)>>)
    /\ UNCHANGED <<variant, lastFrameTime, main, glew, out, setupLog,
                   cleanupLog, frames, queries>>

\* ComputeTime with the colour taken from the time since the last frame
ComputeTime_UsesDelta ==
    /\ pc = "get_time"
    /\ pc' = "get_uniform"
    /\ \E t \in glfw.clock..MaxClock :
         /\ glfw' = [glfw EXCEPT !.clock = t, !.delivered = <<>>]
         /\ main' = [main EXCEPT !.timeValue = t,
                                 !.timeSinceLastFrame = t - lastFrameTime,
                                 !.greenValue = GreenValue(t - lastFrameTime)]
         /\ lastFrameTime' = t
    /\ Frame(<<Call("glfwGetTime", 0)>>)
    /\ UNCHANGED <<variant, WIDTH, HEIGHT, glew, gl, out, setupLog,
                   cleanupLog, frames, queries>>

\* timeValue = (float)glfwGetTime();
\* timeSinceLastFrame = timeValue - lastFrameTime; lastFrameTime = timeValue;
\* greenValue = (float)(sin(timeValue) / 2.0f) + 0.5f;
ComputeTime ==
    /\ pc = "get_time"
    /\ pc' = "get_uniform"
    /\ \E t \in glfw.clock..MaxClock :
         /\ glfw' = [glfw EXCEPT !.clock = t, !.delivered = <<>>]
         /\ main' = [main EXCEPT !.timeValue = t,
                                 !.timeSinceLastFrame = t - lastFrameTime,
                                 !.greenValue = GreenValue(t)]
         /\ lastFrameTime' = t
    /\ Frame(<<Call("glfwGetTime", 0)>>)
    /\ UNCHANGED <<variant, WIDTH, HEIGHT, glew, gl, out, setupLog,
                   cleanupLog, frames, queries>>

\* vertexColorLocation = glGetUniformLocation(shaderProgram, "ourColor");
GetUniformLocation ==
    /\ pc = "get_uniform"
    /\ pc' = "use_for_uniform"
    /\ main' = [main EXCEPT !.vertexColorLocation =
                    glGetUniformLocation(gl, main.shaderProgram)]
    /\ queries' = queries + 1
    /\ Frame(<<Call("glGetUniformLocation", main.shaderProgram)>>)
    /\ UNCHANGED <<variant, WIDTH, HEIGHT, lastFrameTime, glfw, glew, gl, out,
                   setupLog, cleanupLog, frames>>

\* glUseProgram(shaderProgram), before the uniform is set
UseProgramForUniform ==
    /\ pc = "use_for_uniform"
    /\ pc' = "uniform"
    /\ gl' = glUseProgram(gl, main.shaderProgram)
    /\ Frame(<<Call("glUseProgram", main.shaderProgram)>>)
    /\ UNCHANGED <<variant, WIDTH, HEIGHT, lastFrameTime, main, glfw, glew, out,
                   setupLog, cleanupLog, frames, queries>>

\* glUniform4f(vertexColorLocation, greenValue, greenValue, greenValue, 1.0f)
SetUniform ==
    /\ pc = "uniform"
    /\ pc' = "clear"
    /\ gl' = glUniform4f(gl, main.vertexColorLocation, main.greenValue)
    /\ Frame(<<Call("glUniform4f", main.greenValue)>>)
    /\ UNCHANGED <<variant, WIDTH, HEIGHT, lastFrameTime, main, glfw, glew, out,
                   setupLog, cleanupLog, frames, queries>>

\* glClearColor(...); glClear(COLOR | DEPTH | STENCIL)
Clear ==
    /\ pc = "clear"
    /\ pc' = "use_program"
    /\ glfw' = [glfw EXCEPT !.delivered = <<>>]
    /\ Frame(<<Call("glClearColor", 0), Call("glClear", 0)>>)
    /\ UNCHANGED <<variant, WIDTH, HEIGHT, lastFrameTime, main, glew, gl,
                   out, setupLog, cleanupLog, frames, queries>>

\* UseProgram with the call left out
UseProgram_Omitted ==
    /\ pc = "use_program"
    /\ pc' = "bind_vao_draw"
    /\ UNCHANGED <<variant, WIDTH, HEIGHT, lastFrameTime, main, glfw, glew, gl,
                   out, setupLog, frameLog, cleanupLog, frames, queries>>

\* glUseProgram(shaderProgram), before the draw
UseProgram ==
    /\ pc = "use_program"
    /\ pc' = "bind_vao_draw"
    /\ gl' = glUseProgram(gl, main.shaderProgram)
    /\ Frame(<<Call("glUseProgram", main.shaderProgram)>>)
    /\ UNCHANGED <<variant, WIDTH, HEIGHT, lastFrameTime, main, glfw, glew, out,
                   setupLog, cleanupLog, frames, queries>>

BindVertexArrayForDraw ==
    /\ pc = "bind_vao_draw"
    /\ pc' = "draw"
    /\ gl' = glBindVertexArray(gl, main.VAO)
    /\ Frame(<<Call("glBindVertexArray", main.VAO)>>)
    /\ UNCHANGED <<variant, WIDTH, HEIGHT, lastFrameTime, main, glfw, glew, out,
                   setupLog, cleanupLog, frames, queries>>

\* glDrawArrays / glDrawElements.  An indexed draw of more indices than the
\* element buffer holds reads past its end: the driver may fault, or carry on.
Draw ==
    /\ pc = "draw"
    /\ \/ pc' = "unbind_vao_draw"
       \/ /\ IsQuads
          /\ DrawCount(variant) > IndicesAvailable(gl)
          /\ pc' = "crashed"
    /\ Frame(<<Call(IF IsQuads THEN "glDrawElements" ELSE "glDrawArrays",
                    DrawCount(variant))>>)
    /\ UNCHANGED <<variant, WIDTH, HEIGHT, lastFrameTime, main, glfw, glew, gl,
                   out, setupLog, cleanupLog, frames, queries>>

\* UnbindVertexArrayAfterDraw binding the vertex array again instead of 0
UnbindVertexArrayAfterDraw_Rebinds ==
    /\ pc = "unbind_vao_draw"
    /\ pc' = "swap"
    /\ gl' = glBindVertexArray(gl, main.VAO)
    /\ frameLog' = frameLog \o <<Call("glBindVertexArray", main.VAO)>>
    /\ UNCHANGED <<variant, WIDTH, HEIGHT, lastFrameTime, main, glfw, glew, out,
                   setupLog, cleanupLog, frames, queries>>

\* glBindVertexArray(0)
UnbindVertexArrayAfterDraw ==
    /\ pc = "unbind_vao_draw"
    /\ pc' = "swap"
    /\ gl' = glBindVertexArray(gl, 0)
    /\ Frame(<<Call("glBindVertexArray", 0)>>)
    /\ UNCHANGED <<variant, WIDTH, HEIGHT, lastFrameTime, main, glfw, glew, out,
                   setupLog, cleanupLog, frames, queries>>

\* SwapBuffers with the callbacks invoked from inside glfwSwapBuffers too
SwapBuffers_DispatchesEvents ==
    /\ pc = "swap"
    /\ pc' = "loop_check"
    /\ frames' = frames + 1
    /\ \E evs \in SeqsUpTo(Events, MaxEvents) :
         LET st == Deliver([shouldClose |-> glfw.shouldClose,
                            WIDTH |-> WIDTH, HEIGHT |-> HEIGHT,
                            framebufferSize |-> glfw.framebufferSize,
                            viewport |-> gl.viewport], evs)
         IN  /\ glfw' = [glfw EXCEPT !.shouldClose = st.shouldClose,
                                     !.framebufferSize = st.framebufferSize]
             /\ WIDTH' = st.WIDTH
             /\ HEIGHT' = st.HEIGHT
             /\ gl' = [gl EXCEPT !.viewport = st.viewport]
    /\ Frame(<<Call("glfwSwapBuffers", 0)>>)
    /\ UNCHANGED <<variant, lastFrameTime, main, glew, out, setupLog,
                   cleanupLog, queries>>

\* glfwSwapBuffers(window): the end of the iteration
SwapBuffers ==
    /\ pc = "swap"
    /\ pc' = "loop_check"
    /\ frames' = frames + 1
    /\ Frame(<<Call("glfwSwapBuffers", 0)>>)
    /\ UNCHANGED <<variant, WIDTH, HEIGHT, lastFrameTime, main, glfw, glew, gl,
                   out, setupLog, cleanupLog, queries>>

----------------------------------------------------------------------------
(* main(): clean-up *)

Cleanup(calls) == cleanupLog' = cleanupLog \o calls

\* glDeleteVertexArrays(1, &VAO)
DeleteVertexArray ==
    /\ pc = "delete_vao"
    /\ pc' = "delete_vbo"
    /\ gl' = glDeleteVertexArrays(gl, main.VAO)
    /\ Cleanup(<<Call("glDeleteVertexArrays", main.VAO)>>)
    /\ UNCHANGED <<variant, WIDTH, HEIGHT, lastFrameTime, main, glfw, glew, out,
                   setupLog, frameLog, frames, queries>>

\* glDeleteBuffers(1, &VBO): the one glDeleteBuffers call of either variant
DeleteVertexBuffer ==
    /\ pc = "delete_vbo"
    /\ pc' = "glfwTerminate"
    /\ gl' = glDeleteBuffers(gl, main.VBO)
    /\ Cleanup(<<Call("glDeleteBuffers", main.VBO)>>)
    /\ UNCHANGED <<variant, WIDTH, HEIGHT, lastFrameTime, main, glfw, glew, out,
                   setupLog, frameLog, frames, queries>>

\* glfwTerminate(): the window and its context go away.  gl keeps recording
\* the object names the program created and never deleted.
Terminate ==
    /\ pc = "glfwTerminate"
    /\ pc' = "return"
    /\ glfw' = [glfw EXCEPT !.terminated = TRUE, !.current = FALSE]
    /\ Cleanup(<<Call("glfwTerminate", 0)>>)
    /\ UNCHANGED <<variant, WIDTH, HEIGHT, lastFrameTime, main, glew, gl, out,
                   setupLog, frameLog, frames, queries>>

\* return 0
Return ==
    /\ pc = "return"
    /\ pc' = "done"
    /\ UNCHANGED <<variant, WIDTH, HEIGHT, lastFrameTime, main, glfw, glew, gl,
                   out, setupLog, frameLog, cleanupLog, frames, queries>>

----------------------------------------------------------------------------
(* Neither the window nor the loader's result is checked.                 *)
(*  - glfwCreateWindow returned NULL: glfwMakeContextCurrent(NULL) is     *)
(*    allowed, but glfwSetKeyCallback(NULL, ...) stores through the null   *)
(*    window (or trips GLFW's assertion): the process ends there.          *)
(*  - glewInit returned an error: the entry points it resolves may or may  *)
(*    not have been set.  A statement that calls through one either goes   *)
(*    through as usual or calls a null function pointer and faults.        *)

GraphicsStatements ==
    {"glViewport", "vs_compile", "vs_check", "fs_compile", "fs_check",
     "glCreateProgram", "attach_vs", "attach_fs", "glLinkProgram",
     "link_check", "delete_vs", "delete_fs", "gen_vao", "gen_vbo", "gen_ebo",
     "bind_vao", "bind_vbo", "data_vbo", "bind_ebo", "data_ebo",
     "attrib_pointer", "enable_attrib", "unbind_vbo", "rebind_ebo",
     "unbind_vao", "get_uniform", "use_for_uniform", "uniform", "clear",
     "use_program", "bind_vao_draw", "draw", "unbind_vao_draw", "delete_vao",
     "delete_vbo"}

\* glViewport, glClear and the draw calls are linked directly
LoaderStatements == GraphicsStatements \ {"glViewport", "clear", "draw"}

InitFailed == glfw.window = "null" \/ glew = "error"

Crash ==
    /\ \/ glfw.window = "null" /\ pc = "glfwSetKeyCallback"
       \/ glew = "error" /\ pc \in LoaderStatements
    /\ pc' = "crashed"
    /\ UNCHANGED <<variant, WIDTH, HEIGHT, lastFrameTime, main, glfw, glew, gl,
                   out, setupLog, frameLog, cleanupLog, frames, queries>>

----------------------------------------------------------------------------

Next ==
    \/ GlfwInit \/ GlfwCreateWindow \/ GlfwMakeContextCurrent
    \/ GlfwSetKeyCallback \/ GlfwSetWindowSizeCallback \/ GlewInit
    \/ SetInitialViewport
    \/ CompileVertexShader \/ CheckVertexShader
    \/ CompileFragmentShader \/ CheckFragmentShader
    \/ CreateProgram \/ AttachVertexShader \/ AttachFragmentShader
    \/ LinkProgram \/ CheckLink
    \/ DeleteVertexShader \/ DeleteFragmentShader
    \/ GenVertexArrays \/ GenVertexBuffer \/ GenElementBuffer
    \/ BindVertexArrayForSetup \/ BindVertexBuffer \/ UploadVertices
    \/ BindElementBuffer \/ UploadIndices
    \/ VertexAttribPointer \/ EnableVertexAttribArray
    \/ UnbindVertexBuffer \/ RebindElementBuffer
    \/ UnbindVertexArrayAfterSetup
    \/ LoopCheck \/ PollEvents
    \/ ComputeTime \/ GetUniformLocation \/ UseProgramForUniform \/ SetUniform
    \/ Clear \/ UseProgram \/ BindVertexArrayForDraw \/ Draw
    \/ UnbindVertexArrayAfterDraw \/ SwapBuffers
    \/ DeleteVertexArray \/ DeleteVertexBuffer \/ Terminate \/ Return
    \/ Crash

Spec == Init /\ [][Next]_vars

----------------------------------------------------------------------------
(* Vocabulary of the properties *)

LoopStatements ==
    {"loop_check", "poll", "get_time", "get_uniform", "use_for_uniform",
     "uniform", "clear", "use_program", "bind_vao_draw", "draw",
     "unbind_vao_draw", "swap"}

CleanupStatements == {"delete_vao", "delete_vbo", "glfwTerminate"}

Returned == pc \in {"return", "done"}

\* How many calls of log are op(arg)
RECURSIVE CountCalls(_, _, _)
CountCalls(log, op, arg) ==
    IF log = <<>> THEN 0
    ELSE (IF Head(log) = Call(op, arg) THEN 1 ELSE 0)
         + CountCalls(Tail(log), op, arg)

HasOp(log, op) == \E i \in DOMAIN log : log[i].op = op

IsPrefix(a, b) == Len(a) <= Len(b) /\ a = SubSeq(b, 1, Len(a))

\* The buffer names main() obtained from glGenBuffers
AllocatedBuffers == {main.VBO, main.EBO} \ {0}

CompileFailed(s) == s # 0 /\ s \in gl.shaders /\ s \notin gl.compiled

----------------------------------------------------------------------------
(* C1: once a close request is raised the loop finishes the iteration in   *)
(* progress, starts no further iteration, then deletes the vertex array    *)
(* and every buffer it allocated (vertex buffer and, in the quads variant, *)
(* the index buffer) exactly once each, and only then terminates the       *)
(* surface, exactly once.  The quads variant never deletes its index       *)
(* buffer.                                                                 *)
C1_CloseThenDeleteAllThenTerminate ==
    /\ pc = "poll" => ~glfw.shouldClose
    /\ (pc \in CleanupStatements \/ Returned) =>
          /\ glfw.shouldClose
          /\ frameLog # <<>> =>
                /\ frameLog[Len(frameLog)].op = "glfwSwapBuffers"
                /\ HasOp(frameLog, "glClear")
                /\ HasOp(frameLog, "glDrawArrays")
                       \/ HasOp(frameLog, "glDrawElements")
    /\ Returned =>
          /\ CountCalls(cleanupLog, "glDeleteVertexArrays", main.VAO) = 1
          /\ \A b \in AllocatedBuffers :
                CountCalls(cleanupLog, "glDeleteBuffers", b) = 1
          /\ CountCalls(cleanupLog, "glfwTerminate", 0) = 1
          /\ cleanupLog[Len(cleanupLog)].op = "glfwTerminate"

(* C2: when main returns, no shader, program, buffer or vertex array the   *)
(* program created is still live.  Neither variant deletes the program,    *)
(* so the two shaders attached to it stay (flagged), and the quads variant *)
(* keeps its index buffer.                                                 *)
C2_NoLiveHandleAtReturn ==
    Returned => LiveHandles(gl) = {}

(* C3: when a stage fails to compile no program object is created, no      *)
(* stage is attached and no link is requested.                             *)
C3_NoProgramAfterCompileFailure ==
    (CompileFailed(main.vertexShader) \/ CompileFailed(main.fragmentShader)) =>
        /\ gl.programs = {}
        /\ gl.attached = {}
        /\ ~HasOp(setupLog, "glLinkProgram")

\* The messages the three outcomes call for, in program order
ExpectedDiagnostics ==
    (IF main.vertexShader \in gl.compiled THEN <<>>
     ELSE <<[label |-> "VERTEX", log |-> main.vertexShader]>>)
    \o (IF main.fragmentShader \in gl.compiled THEN <<>>
        ELSE <<[label |-> "FRAGMENT", log |-> main.fragmentShader]>>)
    \o (IF main.shaderProgram \in gl.linked THEN <<>>
        ELSE <<[label |-> "PROGRAM", log |-> main.shaderProgram]>>)

(* C4: whatever the outcomes of the two compiles and the link, each        *)
(* failing step has printed exactly one message, labelled with that step   *)
(* and carrying that object's own log, no succeeding step has printed one, *)
(* and all of them are out before the first iteration: from the loop on,   *)
(* cout holds exactly the expected messages, and nothing is added.         *)
C4_DiagnosticsBeforeLoop ==
    /\ \A i \in DOMAIN out :
          /\ out[i].label = "VERTEX" =>
                out[i].log = main.vertexShader /\ CompileFailed(out[i].log)
          /\ out[i].label = "FRAGMENT" =>
                out[i].log = main.fragmentShader /\ CompileFailed(out[i].log)
          /\ out[i].label = "PROGRAM" =>
                out[i].log = main.shaderProgram /\ out[i].log \notin gl.linked
          /\ \A j \in DOMAIN out : out[i].label = out[j].label => i = j
    /\ (pc \in LoopStatements \cup CleanupStatements \/ Returned) =>
          out = ExpectedDiagnostics

\* The loop is running its first iteration after all three steps failed
C4_Witness ==
    /\ pc = "clear"
    /\ frames = 0
    /\ Len(out) = 3
    /\ ~InitFailed

(* C5: when window creation or the loader's initialisation fails, nothing  *)
(* is created and the loop is never entered.  Neither result is checked:   *)
(* after a failed glewInit main goes on to create objects and to loop.     *)
C5_InitFailureAborts ==
    InitFailed =>
        /\ LiveHandles(gl) = {}
        /\ pc \notin LoopStatements
        /\ frames = 0

\* The element count of the geometry: vertices drawn, or indices drawn
ElementCount(v) ==
    IF v = "triangle" THEN TriangleVertexCount ELSE QuadsIndexCount

(* C6: the count of every draw call is the geometry's element count: 3     *)
(* vertices, or 12 indices.  The quads variant passes sizeof(indices).     *)
C6_DrawCountIsElementCount ==
    \A i \in DOMAIN frameLog :
        frameLog[i].op \in {"glDrawArrays", "glDrawElements"} =>
            frameLog[i].arg = ElementCount(variant)

\* The step of the iteration a call belongs to ("" for glClearColor, which
\* belongs to the clear step that glClear performs)
StepOf(c) ==
    CASE c.op = "glfwPollEvents"       -> "poll"
      [] c.op = "glfwGetTime"          -> "time"
      [] c.op = "glGetUniformLocation" -> "locate"
      [] c.op = "glUseProgram"         -> "activate"
      [] c.op = "glUniform4f"          -> "push"
      [] c.op = "glClearColor"         -> ""
      [] c.op = "glClear"              -> "clear"
      [] c.op = "glBindVertexArray"    -> IF c.arg = 0 THEN "unbind" ELSE "bind"
      [] c.op \in {"glDrawArrays", "glDrawElements"} -> "draw"
      [] c.op = "glfwSwapBuffers"      -> "swap"

RECURSIVE Steps(_)
Steps(log) ==
    IF log = <<>> THEN <<>>
    ELSE (IF StepOf(Head(log)) = "" THEN <<>> ELSE <<StepOf(Head(log))>>)
         \o Steps(Tail(log))

RECURSIVE Without(_, _)
Without(seq, x) ==
    IF seq = <<>> THEN <<>>
    ELSE (IF Head(seq) = x THEN <<>> ELSE <<Head(seq)>>) \o Without(Tail(seq), x)

\* An iteration has just been completed
IterationDone == pc = "loop_check" /\ frames > 0

ClaimedSteps ==
    <<"poll", "time", "activate", "push", "clear", "bind", "draw", "unbind",
      "swap">>

IterationSteps(v) ==
    IF v = "triangle"
    THEN <<"poll", "clear", "activate", "bind", "draw", "unbind", "swap">>
    ELSE <<"poll", "time", "locate", "activate", "push", "clear", "activate",
           "bind", "draw", "unbind", "swap">>

(* C7 as stated: every iteration performs, once each and in this order,    *)
(* poll, compute the time value, activate the program and push the         *)
(* uniform, clear, bind, draw, unbind, swap (the lookup of the uniform's   *)
(* location is not counted as a step).                                     *)
C7_Original ==
    IterationDone => Without(Steps(frameLog), "locate") = ClaimedSteps

(* C7, amended: every iteration performs the steps of its variant in a     *)
(* fixed order: triangle: poll, clear, activate, bind, draw, unbind, swap; *)
(* quads: poll, time, locate, activate, push, clear, activate, bind, draw, *)
(* unbind, swap (the program is activated twice).  What has been issued of *)
(* an iteration is always a prefix of that order, a new iteration starts   *)
(* with nothing issued, and an iteration is counted only once its swap is  *)
(* the last call issued.                                                   *)
C7_IterationOrder ==
    /\ IsPrefix(Steps(frameLog), IterationSteps(variant))
    /\ IterationDone => Steps(frameLog) = IterationSteps(variant)
    /\ pc = "poll" => frameLog = <<>>
    /\ (pc \in LoopStatements \ {"loop_check"}) =>
          ~HasOp(frameLog, "glfwSwapBuffers")

\* The second iteration of the quads variant has been completed
C7_Witness ==
    /\ IterationDone
    /\ frames = 2
    /\ variant = "quads"
    /\ Len(frameLog) = 12

C9_NoProgramCurrent ==
    (pc \in {"poll", "swap"} \cup CleanupStatements \/ Returned) =>
        gl.currentProgram = 0

(* C10: the location of "ourColor" is asked of the graphics context at     *)
(* most once in a run.  The quads variant asks in every iteration.         *)
C10_UniformLocationQueriedOnce ==
    queries <= 1

----------------------------------------------------------------------------

GeometryStatements ==
    {"gen_vao", "gen_vbo", "gen_ebo", "bind_vao", "bind_vbo", "data_vbo",
     "bind_ebo", "data_ebo", "attrib_pointer", "enable_attrib", "unbind_vbo",
     "rebind_ebo", "unbind_vao"}

ShaderOps ==
    {"glCreateShader", "glShaderSource", "glCompileShader", "glAttachShader",
     "glDetachShader", "glDeleteShader"}

\* The position of the first call of log with this op (0 when there is none)
FirstIndex(log, op) ==
    IF HasOp(log, op)
    THEN CHOOSE i \in DOMAIN log :
            log[i].op = op /\ \A j \in 1..(i - 1) : log[j].op # op
    ELSE 0

(* C11: after a successful link both stage objects are detached from the   *)
(* program and destroyed, once each, before geometry set-up and the loop,  *)
(* and nothing later refers to them.  main() calls glDeleteShader once on  *)
(* each but never detaches them: attached to a program that is never       *)
(* deleted, they are only flagged and stay alive.                          *)
C11_StagesDetachedAndDestroyed ==
    (/\ main.shaderProgram \in gl.linked
     /\ (pc \in GeometryStatements \cup LoopStatements \cup CleanupStatements
            \/ Returned)) =>
        /\ \A s \in {main.vertexShader, main.fragmentShader} :
              /\ s \notin gl.shaders
              /\ <<main.shaderProgram, s>> \notin gl.attached
              /\ CountCalls(setupLog, "glDeleteShader", s) = 1
        /\ \A i \in DOMAIN setupLog :
              (i > FirstIndex(setupLog, "glDeleteShader")
                 /\ setupLog[i].op # "glDeleteShader") =>
                    setupLog[i].op \notin ShaderOps
        /\ \A i \in DOMAIN frameLog : frameLog[i].op \notin ShaderOps
        /\ \A i \in DOMAIN cleanupLog : cleanupLog[i].op \notin ShaderOps

C12_NormalExitOnlyByCloseTest ==
    [][(pc \in LoopStatements /\ pc' \notin LoopStatements \cup {"crashed"}) =>
          (pc = "loop_check" /\ glfw.shouldClose /\ pc' = "delete_vao")]_vars

\* The loop's scheduling: main() is one thread that keeps executing
FairSpec == Spec /\ WF_vars(Next)

\* Under FairSpec a raised close flag leads out of the loop (to clean-up, or
\* to the end of the process at one of the two faults)
C12_CloseLeadsOutOfLoop ==
    (glfw.shouldClose /\ pc \in LoopStatements) ~> (pc \notin LoopStatements)

----------------------------------------------------------------------------
(* The callbacks, seen from the state glfwPollEvents returns in *)

\* What the callbacks read and write, as it is now
CallbackState ==
    [shouldClose |-> glfw.shouldClose, WIDTH |-> WIDTH, HEIGHT |-> HEIGHT,
     framebufferSize |-> glfw.framebufferSize, viewport |-> gl.viewport]

IsResize(e) == e.type = "resize"

\* The resize notifications of the glfwPollEvents that has just returned
ResizesDelivered == SelectSeq(glfw.delivered, IsResize)

LastResize == ResizesDelivered[Len(ResizesDelivered)]

\* The objects main() holds a name of
PipelineHandles ==
    {<<"shader", s>> : s \in {main.vertexShader, main.fragmentShader} \ {0}}
    \cup {<<"program", p>> : p \in {main.shaderProgram} \ {0}}
    \cup {<<"buffer", b>> : b \in {main.VBO, main.EBO} \ {0}}
    \cup {<<"vertex array", v>> : v \in {main.VAO} \ {0}}

(* C13: when glfwPollEvents has invoked the resize handler, invoking it    *)
(* once more with the same (width, height), the framebuffer size being     *)
(* what it was, changes nothing: viewport, WIDTH, HEIGHT and close flag    *)
(* stay as the first invocation left them, and the live objects are still  *)
(* exactly the ones main() created (none created, none deleted).           *)
C13_ResizeIdempotent ==
    ResizesDelivered # <<>> =>
        /\ window_size_callback(CallbackState, LastResize.dim[1],
                                LastResize.dim[2]) = CallbackState
        /\ LiveHandles(gl) = PipelineHandles

\* A resize to a size other than the one WIDTH, HEIGHT held has been handled
C13_Witness ==
    /\ ResizesDelivered # <<>>
    /\ LastResize.dim = <<800, 600>>
    /\ WIDTH = 800
    /\ HEIGHT = 600
    /\ frames = 1
    /\ gl.viewport[3] = LastResize.scale * 800

(* C14: after a resize notification the viewport is (0, 0, w, h) with      *)
(* (w, h) the framebuffer size the surface has at that moment, whatever    *)
(* the raw width and height of the notification; where the two differ the  *)
(* raw values are not in the viewport.                                     *)
C14_ViewportIsFramebufferSize ==
    ResizesDelivered # <<>> =>
        /\ gl.viewport = <<0, 0, glfw.framebufferSize[1],
                                 glfw.framebufferSize[2]>>
        /\ glfw.framebufferSize = <<LastResize.scale * LastResize.dim[1],
                                    LastResize.scale * LastResize.dim[2]>>
        /\ LastResize.scale # 1 =>
              /\ gl.viewport[3] # LastResize.dim[1]
              /\ gl.viewport[4] # LastResize.dim[2]

\* A resize whose raw values are half the framebuffer size has been handled
C14_Witness ==
    /\ ResizesDelivered # <<>>
    /\ LastResize.scale = 2
    /\ LastResize.dim = <<320, 240>>
    /\ gl.viewport = <<0, 0, 640, 480>>
    /\ WIDTH = 320

KeysOnly(evs) == \A i \in DOMAIN evs : evs[i].type = "key"

EscapePressed(evs) ==
    \E i \in DOMAIN evs :
        evs[i].type = "key" /\ evs[i].key = "ESCAPE" /\ evs[i].action = "PRESS"

(* C15: a glfwPollEvents that dispatches key events only raises the close  *)
(* flag if and only if one of them is an escape press, and changes nothing *)
(* else (escape release and repeat, and every other key, change nothing at *)
(* all); and no step of the program lowers a raised close flag.            *)
C15_EscapePressOnlyCloses ==
    [][/\ glfw.shouldClose => glfw'.shouldClose
       /\ (pc = "poll" /\ KeysOnly(glfw'.delivered)) =>
             /\ glfw'.shouldClose =
                   (glfw.shouldClose \/ EscapePressed(glfw'.delivered))
             /\ glfw' = [glfw EXCEPT !.shouldClose = glfw'.shouldClose,
                                     !.delivered = glfw'.delivered]
             /\ UNCHANGED <<variant, WIDTH, HEIGHT, lastFrameTime, main, glew,
                            gl, out, setupLog, cleanupLog, frames, queries>>
      ]_vars

\* An escape release was dispatched and left the close flag down
C15_Witness ==
    /\ glfw.delivered # <<>>
    /\ glfw.delivered[1] = [type |-> "key", key |-> "ESCAPE", action |-> "RELEASE"]
    /\ KeysOnly(glfw.delivered)
    /\ ~EscapePressed(glfw.delivered)
    /\ ~glfw.shouldClose

----------------------------------------------------------------------------
(* The animated colour *)

\* 0.5 + 0.5 * sin(T) at T a multiple of pi/2, in thousandths
HalfPlusHalfSine(T) ==
    CASE T % 4 = 0 -> 500
      [] T % 4 = 1 -> 1000
      [] T % 4 = 2 -> 500
      [] T % 4 = 3 -> 0

\* The green components passed to glUniform4f in the current iteration
ValuesPushed == {frameLog[i].arg : i \in {k \in DOMAIN frameLog : frameLog[k].op = "glUniform4f"}}

(* C16: the value passed to glUniform4f in a frame is 0.5 + 0.5*sin(T) of  *)
(* the elapsed time T sampled in that frame and of nothing else (whatever  *)
(* the number of frames before it and whatever lastFrameTime held), and it *)
(* lies in [0, 1]; the value the program object holds is that value too.   *)
C16_ColourIsFunctionOfTime ==
    /\ \A v \in ValuesPushed :
          /\ v = HalfPlusHalfSine(main.timeValue)
          /\ 0 <= v
          /\ v <= 1000
    /\ (ValuesPushed # {} /\ gl.currentProgram # 0) =>
          gl.uniform = HalfPlusHalfSine(main.timeValue)

\* The second frame pushed the colour of T = 3*pi/2, the first frame having
\* sampled an earlier time
C16_Witness ==
    /\ frames = 1
    /\ ValuesPushed = {0}
    /\ main.timeValue = 3
    /\ main.timeSinceLastFrame \in 1..2

----------------------------------------------------------------------------
(* The order of start-up, loop and shutdown *)

StartupOrder ==
    <<"glfwInit", "glfwCreateWindow", "glfwMakeContextCurrent",
      "glfwSetKeyCallback", "glfwSetWindowSizeCallback", "glewInit",
      "glViewport">>

StartupOps == {StartupOrder[i] : i \in DOMAIN StartupOrder}

\* The operations of a log, in order
OpsOf(log) == [i \in DOMAIN log |-> log[i].op]

(* C17: the calls before the loop begin with glfwInit, glfwCreateWindow,   *)
(* glfwMakeContextCurrent, glfwSetKeyCallback, glfwSetWindowSizeCallback,  *)
(* glewInit, glViewport in that order, each once; every shader, program,   *)
(* buffer and vertex-array call comes after them (so after glewInit); no   *)
(* loop iteration starts before all of them were made; glfwTerminate is    *)
(* called once, after the loop, and is the last call of the program.       *)
C17_StartupLoopTerminateOrder ==
    /\ IsPrefix(OpsOf(setupLog), StartupOrder)
       \/ /\ IsPrefix(StartupOrder, OpsOf(setupLog))
          /\ \A i \in DOMAIN setupLog :
                i > Len(StartupOrder) => setupLog[i].op \notin StartupOps
    /\ (pc \in LoopStatements \/ frameLog # <<>> \/ cleanupLog # <<>>) =>
          IsPrefix(StartupOrder, OpsOf(setupLog))
    /\ \A i \in DOMAIN frameLog : frameLog[i].op \notin StartupOps \cup {"glfwTerminate"}
    /\ \A i \in DOMAIN cleanupLog :
          cleanupLog[i].op = "glfwTerminate" => i = Len(cleanupLog)
    /\ glfw.terminated <=> HasOp(cleanupLog, "glfwTerminate")
    /\ glfw.terminated => Returned
    /\ Returned => glfw.terminated

\* main() has returned after start-up, one iteration at least, and shutdown
C17_Witness ==
    /\ pc = "done"
    /\ OpsOf(SubSeq(setupLog, 1, Len(StartupOrder))) = StartupOrder
    /\ HasOp(setupLog, "glGenVertexArrays")
    /\ HasOp(frameLog, "glfwSwapBuffers")
    /\ cleanupLog[Len(cleanupLog)].op = "glfwTerminate"

----------------------------------------------------------------------------
(* Geometry set-up *)

\* The places of the call op(arg) in log
Places(log, op, arg) == {i \in DOMAIN log : log[i] = Call(op, arg)}

GeometryDone ==
    pc \in LoopStatements \cup CleanupStatements \cup {"return", "done"}

\* The attribute layout of location 0: 3 floats, stride 3 floats, offset 0,
\* read from vertex buffer b
Layout(b, on) ==
    [enabled |-> on, buffer |-> b, size |-> FloatsPerVertex,
     stride |-> FloatsPerVertex * SizeofGLfloat, offset |-> 0]

\* The vertex array, then the vertex buffer, then the index buffer are
\* allocated; the layout is declared and enabled with the vertex array and
\* the uploaded vertex buffer bound
C18_AllocationAndLayout ==
    /\ pc \in {"enable_attrib", "unbind_vbo"} =>
          /\ main.VAO # 0
          /\ main.VBO # 0
          /\ gl.boundVAO = main.VAO
          /\ gl.boundArrayBuffer = main.VBO
          /\ gl.data[main.VBO] = SizeofVertices(variant)
          /\ gl.vaoAttrib[main.VAO] = Layout(main.VBO, pc = "unbind_vbo")
    /\ GeometryDone =>
          /\ \A i \in Places(setupLog, "glGenVertexArrays", main.VAO) :
             \A j \in Places(setupLog, "glGenBuffers", main.VBO) : i < j
          /\ IsQuads =>
                \A i \in Places(setupLog, "glGenBuffers", main.VBO) :
                \A j \in Places(setupLog, "glGenBuffers", main.EBO) : i < j
          /\ Cardinality(Places(setupLog, "glGenVertexArrays", main.VAO)) = 1
          /\ Cardinality(Places(setupLog, "glGenBuffers", main.VBO)) = 1

\* Each buffer is bound once, and the index buffer is not bound after the
\* vertex buffer was unbound
C18_EachBufferBoundOnce ==
    GeometryDone =>
        /\ Cardinality(Places(setupLog, "glBindBuffer(ARRAY)", main.VBO)) = 1
        /\ IsQuads =>
              /\ Cardinality(Places(setupLog, "glBindBuffer(ELEMENT)",
                                    main.EBO)) = 1
              /\ \A i \in Places(setupLog, "glBindBuffer(ARRAY)", 0) :
                 \A j \in Places(setupLog, "glBindBuffer(ELEMENT)", main.EBO) :
                    j < i

(* C18: geometry set-up allocates the vertex array, the vertex buffer and  *)
(* (quads) the index buffer in that order and binds each buffer exactly    *)
(* once; the layout of location 0 (3 floats, stride 3 floats, offset 0) is *)
(* declared and enabled while the vertex array and the uploaded vertex     *)
(* buffer are bound; the index buffer is not bound again after the vertex  *)
(* buffer is unbound.                                                      *)
C18_GeometrySetupOrder ==
    /\ C18_AllocationAndLayout
    /\ C18_EachBufferBoundOnce

----------------------------------------------------------------------------
(* The bindings a draw call is issued under *)

\* The pipeline's vertex array is current and, in the quads variant, its
\* element-array binding is the index buffer with the indices uploaded
C19_ArrayAndIndicesBoundAtDraw ==
    pc = "draw" =>
        /\ main.VAO \in gl.vaos
        /\ gl.boundVAO = main.VAO
        /\ IsQuads =>
              /\ main.EBO \in gl.buffers
              /\ BoundElementBuffer(gl) = main.EBO
              /\ gl.data[main.EBO] = SizeofIndices

\* The pipeline's program is current
C19_ProgramCurrentAtDraw ==
    pc = "draw" =>
        /\ main.shaderProgram \in gl.programs
        /\ gl.currentProgram = main.shaderProgram

\* The statements of the loop name live objects only; once an object is
\* deleted the loop is over
C19_NoUseAfterDelete ==
    /\ (pc \in LoopStatements /\ main.VAO # 0) =>
          /\ main.VAO \in gl.vaos
          /\ main.VBO \in gl.buffers
          /\ main.shaderProgram \in gl.programs
          /\ IsQuads => main.EBO \in gl.buffers
    /\ \A i \in DOMAIN frameLog :
          /\ frameLog[i].op = "glBindVertexArray" =>
                frameLog[i].arg \in {0, main.VAO}
          /\ frameLog[i].op = "glUseProgram" =>
                frameLog[i].arg = main.shaderProgram
    /\ cleanupLog # <<>> => pc \notin LoopStatements

(* C19: every draw call is issued with the pipeline's vertex array current *)
(* and the pipeline's program current and, in the quads variant, with the  *)
(* vertex array's element-array binding being the index buffer that holds  *)
(* the uploaded indices; no draw, bind or uniform call names a vertex      *)
(* array, buffer or program after its deletion.                            *)
C19_DrawBindings ==
    /\ C19_ArrayAndIndicesBoundAtDraw
    /\ C19_ProgramCurrentAtDraw
    /\ C19_NoUseAfterDelete

----------------------------------------------------------------------------
(* Where the callbacks run *)

(* C20: the key and resize callbacks run inside glfwPollEvents only: from  *)
(* its return to the end of the iteration (time, uniform, clear, use,      *)
(* bind, draw, unbind, swap) and at the loop test, no step changes the     *)
(* viewport, the close flag, WIDTH or HEIGHT, so a resize or a close       *)
(* request never takes effect between the clear and the swap of a frame.   *)
C20_CallbacksOnlyInPollEvents ==
    [][/\ (pc \in LoopStatements \ {"poll"}) =>
             /\ gl'.viewport = gl.viewport
             /\ glfw'.shouldClose = glfw.shouldClose
             /\ WIDTH' = WIDTH
             /\ HEIGHT' = HEIGHT
       /\ glfw'.delivered # <<>> => pc = "poll"
      ]_vars

\* The second frame is about to be presented with the viewport its
\* predecessor's resize set and the close flag its own glfwPollEvents raised
C20_Witness ==
    /\ pc = "swap"
    /\ frames = 1
    /\ glfw.shouldClose
    /\ gl.viewport = <<0, 0, 1600, 1200>>
    /\ WIDTH = 800

====
